---- MODULE Spec2Model ----
(***************************************************************************)
(* Model of scripts/add-missing-titles.py (the Title Inserter) and         *)
(* scripts/fix-title-quotes.py (the Title Quoter).                         *)
(*                                                                         *)
(* A Python str is a sequence of one-character strings; a Path is the      *)
(* sequence of its components, each a str.                                 *)
(***************************************************************************)
EXTENDS Integers, Sequences, FiniteSets, TLC

VARIABLES
  path,       \* the file the single-file operations work on
  content,    \* the file's content on disk
  orig,       \* history: the content at the start
  prev,       \* history: the content before the last operation
  ops,        \* history: the operations run so far, in order
  wrote,      \* whether the last operation called write_text
  printed,    \* what each operation run so far printed, in order
  out,        \* the value a pure function call returned
  script,     \* batch: which script's main() runs
  files,      \* batch: the files the glob returned, in order
  idx,        \* batch: position of main's for loop
  processed,  \* batch: add-missing-titles' counter
  visited,    \* batch: indices whose per-file function ran to completion
  pc          \* batch: "loop", "done" (summary printed) or "crashed"

vars == <<path, content, orig, prev, ops, wrote, printed, out,
          script, files, idx, processed, visited, pc>>

----------------------------------------------------------------------------
(* Bounds *)

MaxLines == 3
MaxRuns == 2
MaxStemLen == 3
MaxFiles == 2

----------------------------------------------------------------------------
(* Characters and str methods *)

NL == "\n"
DQ == "\""
SQ == "'"

\* the characters str.isspace() and regex \s accept, among those modelled
Whitespace == {" ", "\t", "\n", "\r", "\f"}

Quotes == {DQ, SQ}

LowerLetters ==
  <<"a", "b", "c", "d", "e", "f", "g", "h", "i", "j", "k", "l", "m",
    "n", "o", "p", "q", "r", "s", "t", "u", "v", "w", "x", "y", "z">>
UpperLetters ==
  <<"A", "B", "C", "D", "E", "F", "G", "H", "I", "J", "K", "L", "M",
    "N", "O", "P", "Q", "R", "S", "T", "U", "V", "W", "X", "Y", "Z">>

\* str.upper() / str.lower() on one character
upper(c) ==
  IF \E i \in 1..Len(LowerLetters) : LowerLetters[i] = c
  THEN UpperLetters[CHOOSE i \in 1..Len(LowerLetters) : LowerLetters[i] = c]
  ELSE c

lower(c) ==
  IF \E i \in 1..Len(UpperLetters) : UpperLetters[i] = c
  THEN LowerLetters[CHOOSE i \in 1..Len(UpperLetters) : UpperLetters[i] = c]
  ELSE c

\* s[i:] with i 0-based, as a sequence
From(s, i) == SubSeq(s, i + 1, Len(s))

\* str.startswith
startswith(s, p) ==
  /\ Len(p) <= Len(s)
  /\ SubSeq(s, 1, Len(p)) = p

\* str.split(sep) for a one-character separator: always at least one piece
RECURSIVE SplitFrom(_, _, _, _)
SplitFrom(s, sep, i, cur) ==
  IF i > Len(s) THEN <<cur>>
  ELSE IF s[i] = sep THEN <<cur>> \o SplitFrom(s, sep, i + 1, <<>>)
  ELSE SplitFrom(s, sep, i + 1, Append(cur, s[i]))

split(s, sep) == SplitFrom(s, sep, 1, <<>>)

\* sep.join(parts)
RECURSIVE join(_, _)
join(sep, parts) ==
  IF parts = <<>> THEN <<>>
  ELSE IF Len(parts) = 1 THEN parts[1]
  ELSE parts[1] \o sep \o join(sep, Tail(parts))

\* str.lstrip(), str.rstrip(), str.strip()
RECURSIVE lstrip(_)
lstrip(s) ==
  IF s # <<>> /\ s[1] \in Whitespace THEN lstrip(Tail(s)) ELSE s

RECURSIVE rstrip(_)
rstrip(s) ==
  IF s # <<>> /\ s[Len(s)] \in Whitespace
  THEN rstrip(SubSeq(s, 1, Len(s) - 1)) ELSE s

strip(s) == rstrip(lstrip(s))

\* a capitalize that leaves the rest of the word as it is
capitalize_KeepRest(w) ==
  [i \in 1..Len(w) |-> IF i = 1 THEN upper(w[i]) ELSE w[i]]

\* str.capitalize(): first character upper-cased, the rest lower-cased
capitalize(w) ==
  [i \in 1..Len(w) |-> IF i = 1 THEN upper(w[i]) ELSE lower(w[i])]

\* number of consecutive whitespace characters of s starting at 1-based i
RECURSIVE WsRun(_, _)
WsRun(s, i) ==
  IF i <= Len(s) /\ s[i] \in Whitespace THEN 1 + WsRun(s, i + 1) ELSE 0

\* The match of  ^<prefix>\s+(.+)$  on a line (re.match): \s+ is greedy and
\* gives back one character when nothing is left for (.+); "." does not
\* match a newline.  Returns [found, group] with group = match.group(1).
MatchPrefixWsRest(prefix, line) ==
  LET p == Len(prefix)
      n == WsRun(line, p + 1)
      k == IF p + n < Len(line) THEN n ELSE n - 1
      g == From(line, p + k)
  IN IF /\ startswith(line, prefix)
        /\ k >= 1
        /\ g # <<>>
        /\ \A j \in 1..Len(g) : g[j] # NL
     THEN [found |-> TRUE, group |-> g]
     ELSE [found |-> FALSE, group |-> <<>>]

----------------------------------------------------------------------------
(* String literals of the two scripts *)

Dashes == <<"-", "-", "-">>
DashesNL == <<"-", "-", "-", NL>>
Hash == <<"#">>
TitleColon == <<"t", "i", "t", "l", "e", ":">>
TitleColonSp == <<"t", "i", "t", "l", "e", ":", " ">>
Index == <<"i", "n", "d", "e", "x">>
Docs == <<"d", "o", "c", "s">>
DotMd == <<".", "m", "d">>

----------------------------------------------------------------------------
(* scripts/add-missing-titles.py *)

\* extract_h1: the first line matching ^#\s+(.+)$ decides; None is
\* [found |-> FALSE].  The returned text is match.group(1).strip().
RECURSIVE FirstH1(_, _)
FirstH1(lines, i) ==
  IF i > Len(lines) THEN [found |-> FALSE, text |-> <<>>]
  ELSE LET m == MatchPrefixWsRest(Hash, lines[i])
       IN IF m.found THEN [found |-> TRUE, text |-> strip(m.group)]
          ELSE FirstH1(lines, i + 1)

extract_h1(c) == FirstH1(split(c, NL), 1)

\* Path.name, Path.parent.name, Path.stem (the name up to its last dot,
\* unless that dot is the first or the last character)
PathName(p) == p[Len(p)]

ParentName(p) == IF Len(p) >= 2 THEN p[Len(p) - 1] ELSE <<>>

LastDot(name) ==
  IF \E i \in 1..Len(name) : name[i] = "."
  THEN CHOOSE i \in 1..Len(name) :
         /\ name[i] = "."
         /\ \A j \in (i + 1)..Len(name) : name[j] # "."
  ELSE 0

PathStem(p) ==
  LET name == PathName(p)
      i == LastDot(name)
  IN IF 1 < i /\ i < Len(name) THEN SubSeq(name, 1, i - 1) ELSE name

\* re.split(r'[-_]', basename)
RECURSIVE SplitSepFrom(_, _, _)
SplitSepFrom(s, i, cur) ==
  IF i > Len(s) THEN <<cur>>
  ELSE IF s[i] \in {"-", "_"} THEN <<cur>> \o SplitSepFrom(s, i + 1, <<>>)
  ELSE SplitSepFrom(s, i + 1, Append(cur, s[i]))

SplitWords(basename) == SplitSepFrom(basename, 1, <<>>)

Basename(p) == IF PathStem(p) = Index THEN ParentName(p) ELSE PathStem(p)

generate_title_from_path(p) ==
  LET words == SplitWords(Basename(p))
  IN join(<<" ">>, [i \in 1..Len(words) |-> capitalize(words[i])])

has_frontmatter(c) == startswith(c, DashesNL)

\* the same loop comparing the line itself, not line.strip(), with '---'
RECURSIVE FindEnd_NoStrip(_, _)
FindEnd_NoStrip(lines, i) ==
  IF i >= Len(lines) THEN -1
  ELSE IF lines[i + 1] = Dashes THEN i
  ELSE FindEnd_NoStrip(lines, i + 1)

\* the loop "for i, line in enumerate(lines[1:], 1)": the 0-based index of
\* the first line from i on whose strip() is '---', or -1 for None
RECURSIVE FindEnd(_, _)
FindEnd(lines, i) ==
  IF i >= Len(lines) THEN -1
  ELSE IF strip(lines[i + 1]) = Dashes THEN i
  ELSE FindEnd(lines, i + 1)

extract_frontmatter(c) ==
  IF ~has_frontmatter(c) THEN [frontmatter |-> <<>>, body |-> c]
  ELSE LET lines == split(c, NL)
           end_idx == FindEnd(lines, 1)
       IN IF end_idx = -1 THEN [frontmatter |-> <<>>, body |-> c]
          ELSE [frontmatter |-> join(<<NL>>, SubSeq(lines, 2, end_idx)),
                body |-> join(<<NL>>, From(lines, end_idx + 1))]

\* re.search(r'^title:', frontmatter, re.MULTILINE)
TitleExists(frontmatter) ==
  \E i \in 1..Len(frontmatter) :
    /\ i = 1 \/ frontmatter[i - 1] = NL
    /\ startswith(From(frontmatter, i - 1), TitleColon)

\* title = extract_h1(content); if not title: generate_title_from_path
ResolveTitle(c, p) ==
  LET h == extract_h1(c)
  IN IF h.found /\ h.text # <<>> THEN h.text
     ELSE generate_title_from_path(p)

NewFrontmatter(title, frontmatter) ==
  IF frontmatter # <<>>
  THEN TitleColonSp \o title \o <<NL>> \o frontmatter
  ELSE TitleColonSp \o title

\* a reconstruction that forgets the newline after the closing delimiter
NewContent_NoNewline(new_frontmatter, body) ==
  DashesNL \o new_frontmatter \o <<NL>> \o Dashes \o lstrip(body)

\* new_content = f"---\n{new_frontmatter}\n---\n{body.lstrip()}"
NewContent(new_frontmatter, body) ==
  DashesNL \o new_frontmatter \o <<NL>> \o DashesNL \o lstrip(body)

\* add_title_to_file as a function of the file read: what is on disk after
\* it, whether it wrote, and what it printed
add_title_to_file(c, p) ==
  LET title == ResolveTitle(c, p)
      fb == extract_frontmatter(c)
  IN IF TitleExists(fb.frontmatter)
     THEN [content |-> c, wrote |-> FALSE,
           msg |-> [kind |-> "skipped", title |-> <<>>]]
     ELSE [content |-> NewContent(NewFrontmatter(title, fb.frontmatter),
                                  fb.body),
           wrote |-> TRUE,
           msg |-> [kind |-> "added", title |-> title]]

----------------------------------------------------------------------------
(* scripts/fix-title-quotes.py *)

\* re.match(r'^title:\s+[^"\'].*:.*[^"\']$', line): \s+ may stop after any
\* k >= 1 of the whitespace characters (backtracking), the character after
\* it is not a quote, the last character is not a quote, and a colon lies
\* strictly between the two.
UnquotedTitleWithColon(line) ==
  /\ startswith(line, TitleColon)
  /\ \E k \in 1..WsRun(line, Len(TitleColon) + 1) :
       LET t == From(line, Len(TitleColon) + k)
       IN /\ Len(t) >= 3
          /\ t[1] \notin Quotes
          /\ t[Len(t)] \notin Quotes
          /\ \A j \in 2..(Len(t) - 1) : t[j] # NL
          /\ \E j \in 2..(Len(t) - 1) : t[j] = ":"

\* a rewrite that wraps the value in single quotes
QuotedLine_Single(title_value) ==
  TitleColonSp \o <<SQ>> \o title_value \o <<SQ>>

\* lines[i] = f'title: "{title_value}"'
QuotedLine(title_value) == TitleColonSp \o <<DQ>> \o title_value \o <<DQ>>

\* the for loop over enumerate(lines) from 1-based line i on: the lines
\* after it and the modified flag; the loop breaks after the first rewrite
RECURSIVE FixLines(_, _)
FixLines(lines, i) ==
  IF i > Len(lines) THEN [lines |-> lines, modified |-> FALSE]
  ELSE LET m == MatchPrefixWsRest(TitleColon, lines[i])
       IN IF /\ UnquotedTitleWithColon(lines[i])
             /\ m.found
             /\ ~(startswith(m.group, <<DQ>>) \/ startswith(m.group, <<SQ>>))
          THEN [lines |-> [lines EXCEPT ![i] = QuotedLine(m.group)],
                modified |-> TRUE]
          ELSE FixLines(lines, i + 1)

\* fix_title_in_file as a function of the file read
fix_title_in_file(c) ==
  LET r == FixLines(split(c, NL), 1)
  IN IF r.modified
     THEN [content |-> join(<<NL>>, r.lines), wrote |-> TRUE,
           msg |-> [kind |-> "quoted", title |-> <<>>]]
     ELSE [content |-> c, wrote |-> FALSE,
           msg |-> [kind |-> "none", title |-> <<>>]]

----------------------------------------------------------------------------
(* Inputs *)

\* lines a document is made of
L_Dashes == Dashes
L_SpDashes == <<" ", "-", "-", "-">>
L_Blank == <<>>
L_Indented == <<" ", "b">>
L_H1 == <<"#", " ", "a", ":", "b">>
L_H2 == <<"#", "#", " ", "c">>
L_Title == <<"t", "i", "t", "l", "e", ":", " ", "a", ":", "b">>
L_TitleQuoted == <<"t", "i", "t", "l", "e", ":", " ", DQ, "a", ":", "b", DQ>>
L_TitleColonLast == <<"t", "i", "t", "l", "e", ":", " ", "a", ":">>

LinePool ==
  {L_Dashes, L_SpDashes, L_Blank, L_Indented, L_H1, L_H2, L_Title,
   L_TitleQuoted, L_TitleColonLast}

RECURSIVE SeqsOfLen(_, _)
SeqsOfLen(S, n) ==
  IF n = 0 THEN {<<>>}
  ELSE {Append(q, x) : q \in SeqsOfLen(S, n - 1), x \in S}

SeqsUpTo(S, n) == UNION {SeqsOfLen(S, k) : k \in 1..n}

\* documents of 1..MaxLines lines
DocPool == {join(<<NL>>, ls) : ls \in SeqsUpTo(LinePool, MaxLines)}

P_Page == <<Docs, <<"c", "-", "d", ".", "m", "d">>>>
P_Draft == <<Docs, <<"_", "a", ":", "b", ".", "m", "d">>>>

PathPool == {P_Page, P_Draft}

NoOut == [kind |-> "none"]

----------------------------------------------------------------------------
(* The two scripts run on one file, in any order *)

Init ==
  /\ path \in PathPool
  /\ content \in DocPool
  /\ orig = content
  /\ prev = content
  /\ ops = <<>>
  /\ wrote = FALSE
  /\ printed = <<>>
  /\ out = NoOut
  /\ script = "none"
  /\ files = <<>>
  /\ idx = 0
  /\ processed = 0
  /\ visited = {}
  /\ pc = "single"

AddTitle ==
  /\ pc = "single"
  /\ Len(ops) < MaxRuns
  /\ LET r == add_title_to_file(content, path)
     IN /\ content' = r.content
        /\ wrote' = r.wrote
        /\ printed' = Append(printed, r.msg)
  /\ prev' = content
  /\ ops' = Append(ops, "add")
  /\ UNCHANGED <<path, orig, out, script, files, idx, processed, visited, pc>>

FixTitle ==
  /\ pc = "single"
  /\ Len(ops) < MaxRuns
  /\ LET r == fix_title_in_file(content)
     IN /\ content' = r.content
        /\ wrote' = r.wrote
        /\ printed' = Append(printed, r.msg)
  /\ prev' = content
  /\ ops' = Append(ops, "fix")
  /\ UNCHANGED <<path, orig, out, script, files, idx, processed, visited, pc>>

Next == AddTitle \/ FixTitle

Spec == Init /\ [][Next]_vars

----------------------------------------------------------------------------
(* Notions the claims are stated with *)

LastTwoAre(a, b) ==
  /\ Len(ops) >= 2
  /\ ops[Len(ops) - 1] = a
  /\ ops[Len(ops)] = b

\* 0-based index of the closing delimiter line of document c, -1 when c has
\* no frontmatter block
ClosingIndex(c) == IF has_frontmatter(c) THEN FindEnd(split(c, NL), 1) ELSE -1

\* the lines of c between its delimiters, and the text after the closing one
FrontmatterLines(c) ==
  IF ClosingIndex(c) = -1 THEN <<>>
  ELSE SubSeq(split(c, NL), 2, ClosingIndex(c))

BodyLines(c) ==
  IF ClosingIndex(c) = -1 THEN split(c, NL)
  ELSE From(split(c, NL), ClosingIndex(c) + 1)

\* a text with its leading blank (empty or whitespace-only) lines removed
RECURSIVE DropBlankLines(_)
DropBlankLines(ls) ==
  IF ls # <<>> /\ strip(ls[1]) = <<>> THEN DropBlankLines(Tail(ls)) ELSE ls

\* the value of a title line: what follows `title:` and its whitespace
TitleValue(line) == From(line, Len(TitleColon) + WsRun(line, Len(TitleColon) + 1))

\* the line `title: "<v>"`, v copied as it is
DoubleQuotedTitle(v) ==
  <<"t", "i", "t", "l", "e", ":", " ", DQ>> \o v \o <<DQ>>

HasColon(v) == \E j \in 1..Len(v) : v[j] = ":"

HasInnerColon(v) == \E j \in 2..(Len(v) - 1) : v[j] = ":"

QuoteFree(v) == v # <<>> /\ v[1] \notin Quotes /\ v[Len(v)] \notin Quotes

\* `title:`, whitespace, and a value that neither starts nor ends with a
\* quote character and contains a colon
IsUnquotedColonTitle(line) ==
  /\ startswith(line, TitleColon)
  /\ WsRun(line, Len(TitleColon) + 1) >= 1
  /\ QuoteFree(TitleValue(line))
  /\ HasColon(TitleValue(line))

\* exactly one `#`, at least one whitespace character, then non-empty text
IsH1(line) ==
  /\ startswith(line, Hash)
  /\ WsRun(line, 2) >= 1
  /\ strip(Tail(line)) # <<>>

FirstIndex(ls, P(_)) ==
  IF \E i \in 1..Len(ls) : P(ls[i])
  THEN CHOOSE i \in 1..Len(ls) : P(ls[i]) /\ \A j \in 1..(i - 1) : ~P(ls[j])
  ELSE 0

----------------------------------------------------------------------------
(* Claims about the two scripts run on one file *)

\* C1: a second run of the Title Inserter right after a first one takes the
\* "title already exists" path, writes nothing and leaves the content as the
\* first run left it.
C1_InserterIdempotent ==
  LastTwoAre("add", "add") =>
    /\ content = prev
    /\ ~wrote
    /\ printed[Len(printed)].kind = "skipped"

\* C1 witness: the first run inserted a title into an existing frontmatter
\* block, and a second run followed.
C1_Witness ==
  /\ ops = <<"add", "add">>
  /\ printed[1].kind = "added"
  /\ FrontmatterLines(orig) # <<>>
  /\ content # orig

\* C2: when the Inserter writes, the file is the opening delimiter, the new
\* title line, the original frontmatter lines in order, the closing
\* delimiter, then the original body less its leading blank lines only.
C2_InserterWritesExactly ==
  (ops = <<"add">> /\ wrote) =>
    content =
      join(<<NL>>,
           <<Dashes, TitleColonSp \o printed[1].title>>
             \o FrontmatterLines(orig)
             \o <<Dashes>>
             \o (IF DropBlankLines(BodyLines(orig)) = <<>> THEN <<<<>>>>
                 ELSE DropBlankLines(BodyLines(orig))))

\* C3: a second run of the Title Quoter right after a first one changes
\* nothing and does not write.
C3_QuoterIdempotent ==
  LastTwoAre("fix", "fix") => (content = prev /\ ~wrote)

\* C4: one pass of the Quoter rewrites the first line that is an unquoted
\* title whose value contains a colon to `title: "<value>"` and nothing
\* else; without such a line it does not write.
C4_QuoterRewritesFirstMatch ==
  ops = <<"fix">> =>
    LET ls == split(orig, NL)
        i == FirstIndex(ls, IsUnquotedColonTitle)
    IN IF i = 0 THEN content = orig /\ ~wrote
       ELSE /\ wrote
            /\ split(content, NL) =
                 [ls EXCEPT ![i] = DoubleQuotedTitle(TitleValue(ls[i]))]

\* C5: the Quoter leaves a document without a frontmatter block unchanged,
\* and never rewrites a line outside the frontmatter block.
C5_QuoterOnlyFrontmatter ==
  ops = <<"fix">> =>
    LET ls == split(orig, NL)
        e == ClosingIndex(orig)
    IN /\ e = -1 => (content = orig /\ ~wrote)
       /\ Len(split(content, NL)) = Len(ls)
       /\ \A i \in 1..Len(ls) :
            (e = -1 \/ i < 2 \/ i > e) => split(content, NL)[i] = ls[i]

\* C6: the title the Inserter inserts is the trimmed text of the first H1
\* line of the body, and the path-based title only when the body has none.
C6_TitleFromFirstBodyH1 ==
  (ops = <<"add">> /\ printed[1].kind = "added") =>
    LET b == BodyLines(orig)
        i == FirstIndex(b, IsH1)
    IN printed[1].title =
         IF i = 0 THEN generate_title_from_path(path)
         ELSE strip(Tail(b[i]))

\* C10 as claimed: after Inserter then Quoter, for an inserted title T with
\* an inner colon and no quote at either end, the Inserter's second line is
\* `title: T` and the Quoter rewrote exactly that line to `title: "T"`;
\* after Quoter then Inserter the second line is the unquoted `title: T`.
C10_InserterThenQuoter ==
  /\ (ops = <<"add", "fix">> /\ printed[1].kind = "added"
        /\ HasInnerColon(printed[1].title) /\ QuoteFree(printed[1].title)) =>
       /\ split(prev, NL)[2] = TitleColonSp \o printed[1].title
       /\ split(content, NL) =
            [split(prev, NL) EXCEPT ![2] = DoubleQuotedTitle(printed[1].title)]
  /\ (ops = <<"fix", "add">> /\ printed[2].kind = "added") =>
       split(content, NL)[2] = TitleColonSp \o printed[2].title

\* C10 as amended: the same, for titles T that do not start with whitespace.
C10_InserterThenQuoterNoLeadingSpace ==
  /\ (ops = <<"add", "fix">> /\ printed[1].kind = "added"
        /\ HasInnerColon(printed[1].title) /\ QuoteFree(printed[1].title)
        /\ printed[1].title[1] \notin Whitespace) =>
       /\ split(prev, NL)[2] = TitleColonSp \o printed[1].title
       /\ split(content, NL) =
            [split(prev, NL) EXCEPT ![2] = DoubleQuotedTitle(printed[1].title)]
  /\ (ops = <<"fix", "add">> /\ printed[2].kind = "added") =>
       split(content, NL)[2] = TitleColonSp \o printed[2].title

\* C10 witness: the Inserter inserted a title with an inner colon taken from
\* an H1, and the Quoter then rewrote the file.
C10_Witness ==
  /\ ops = <<"add", "fix">>
  /\ printed[1].kind = "added"
  /\ HasInnerColon(printed[1].title)
  /\ QuoteFree(printed[1].title)
  /\ printed[1].title[1] \notin Whitespace
  /\ wrote

----------------------------------------------------------------------------
(* generate_title_from_path on its own *)

StemChars == {"a", "B", "-", "_", "."}

Stems == SeqsUpTo(StemChars, MaxStemLen)

\* docs/<stem>.md, and docs/<stem>/index.md
GenPaths ==
  {<<Docs, st \o DotMd>> : st \in Stems}
    \cup {<<Docs, st, Index \o DotMd>> : st \in Stems}

PathInit ==
  /\ path \in GenPaths
  /\ content = <<>>
  /\ orig = <<>>
  /\ prev = <<>>
  /\ ops = <<>>
  /\ wrote = FALSE
  /\ printed = <<>>
  /\ out = NoOut
  /\ script = "none"
  /\ files = <<>>
  /\ idx = 0
  /\ processed = 0
  /\ visited = {}
  /\ pc = "call"

GenerateTitle ==
  /\ pc = "call"
  /\ out = NoOut
  /\ out' = [kind |-> "title", title |-> generate_title_from_path(path)]
  /\ UNCHANGED <<path, content, orig, prev, ops, wrote, printed, script,
                 files, idx, processed, visited, pc>>

PathNext == GenerateTitle

PathSpec == PathInit /\ [][PathNext]_vars

Separators == {"-", "_"}

\* every name of GenPaths ends in .md: the name without that extension,
\* or the parent directory's name for index.md
BaseOf(p) ==
  LET name == p[Len(p)]
      st == SubSeq(name, 1, Len(name) - Len(DotMd))
  IN IF st = Index THEN p[Len(p) - 1] ELSE st

UpperFirst(w) == [i \in 1..Len(w) |-> IF i = 1 THEN upper(w[i]) ELSE w[i]]

NonEmpty(w) == w # <<>>

\* the title of the claim: empty tokens dropped, the first character of each
\* token upper-cased and the rest kept, single spaces between the tokens
ClaimedTitle(base) ==
  LET tokens == SelectSeq(SplitWords(base), NonEmpty)
  IN join(<<" ">>, [i \in 1..Len(tokens) |-> UpperFirst(tokens[i])])

\* C7 as claimed: generate_title_from_path returns the claimed title.
C7_TitleDropsEmptyKeepsCase ==
  out.kind = "title" => out.title = ClaimedTitle(BaseOf(path))

\* C7 as amended: the title has the length of the base name; it has a space
\* wherever the base name has `-` or `_`, the upper-cased character at the
\* start of each token and the lower-cased character everywhere else (empty
\* tokens are kept, so adjacent separators give adjacent spaces).
C7_TitleCapitalizesEveryToken ==
  out.kind = "title" =>
    LET b == BaseOf(path)
    IN /\ Len(out.title) = Len(b)
       /\ \A i \in 1..Len(b) :
            out.title[i] =
              IF b[i] \in Separators THEN " "
              ELSE IF i = 1 \/ b[i - 1] \in Separators THEN upper(b[i])
              ELSE lower(b[i])

\* C7 witness: a title generated from the parent directory of an index.md
\* whose name has a separator and an interior capital.
C7_Witness ==
  /\ out.kind = "title"
  /\ path = <<Docs, <<"a", "B", "-">>, Index \o DotMd>>
  /\ out.title = <<"A", "b", " ">>

----------------------------------------------------------------------------
(* extract_frontmatter on its own *)

SplitInit ==
  /\ path = P_Page
  /\ content \in DocPool
  /\ orig = content
  /\ prev = content
  /\ ops = <<>>
  /\ wrote = FALSE
  /\ printed = <<>>
  /\ out = NoOut
  /\ script = "none"
  /\ files = <<>>
  /\ idx = 0
  /\ processed = 0
  /\ visited = {}
  /\ pc = "call"

ExtractFrontmatter ==
  /\ pc = "call"
  /\ out = NoOut
  /\ LET r == extract_frontmatter(content)
     IN out' = [kind |-> "split", frontmatter |-> r.frontmatter,
                body |-> r.body]
  /\ UNCHANGED <<path, content, orig, prev, ops, wrote, printed, script,
                 files, idx, processed, visited, pc>>

SplitNext == ExtractFrontmatter

SplitSpec == SplitInit /\ [][SplitNext]_vars

\* The result for a text whose first line is `---` and that has further
\* lines: with IsClosing saying which lines close the block, the first such
\* line after the first splits the rest into frontmatter and body; without
\* one, or for any other text, the frontmatter is empty and the body the
\* whole text.
SplitsAt(IsClosing(_)) ==
  LET ls == split(content, NL)
      opened == Len(ls) >= 2 /\ ls[1] = Dashes
  IN IF opened /\ \E i \in 2..Len(ls) : IsClosing(ls[i])
     THEN \E i \in 2..Len(ls) :
            /\ IsClosing(ls[i])
            /\ \A j \in 2..(i - 1) : ~IsClosing(ls[j])
            /\ out.frontmatter = join(<<NL>>, SubSeq(ls, 2, i - 1))
            /\ out.body = join(<<NL>>, SubSeq(ls, i + 1, Len(ls)))
     ELSE out.frontmatter = <<>> /\ out.body = content

IsExactlyDashes(line) == line = Dashes

StripsToDashes(line) == strip(line) = Dashes

\* C8 as claimed: the closing delimiter is the first later line that is
\* exactly `---`.
C8_ClosingIsExactDashes ==
  out.kind = "split" => SplitsAt(IsExactlyDashes)

\* C8 as amended: the closing delimiter is the first later line that is
\* `---` once its leading and trailing whitespace is stripped.
C8_ClosingIsStrippedDashes ==
  out.kind = "split" => SplitsAt(StripsToDashes)

\* C8 witness: a block closed by an indented ` ---`, an exact `---` after it
\* left in the body.
C8_Witness ==
  /\ out.kind = "split"
  /\ content = join(<<NL>>, <<L_Dashes, L_SpDashes, L_Dashes>>)
  /\ out.frontmatter = <<>>
  /\ out.body = Dashes

----------------------------------------------------------------------------
(* main() of either script over the files its glob returned *)

\* str(md_file)
PathStr(p) == join(<<"/">>, p)

\* exclusions = ['docs/tags.md', 'docs/includes/']
Exclusions ==
  <<<<"d", "o", "c", "s", "/", "t", "a", "g", "s", ".", "m", "d">>,
    <<"d", "o", "c", "s", "/", "i", "n", "c", "l", "u", "d", "e", "s", "/">>>>

\* any(str(md_file).startswith(exc) for exc in exclusions)
Excluded(p) ==
  \E k \in 1..Len(Exclusions) : startswith(PathStr(p), Exclusions[k])

\* what the per-file function of the running script does to a file read
PerFile(f) ==
  IF script = "add" THEN add_title_to_file(f.content, f.path)
  ELSE fix_title_in_file(f.content)

\* read_text() raises on a file that cannot be read or decoded, write_text()
\* on one that cannot be written; neither script catches anything
Raises(f) ==
  \/ f.mode = "none"
  \/ f.mode = "ro" /\ PerFile(f).wrote

B_Tags == <<Docs, <<"t", "a", "g", "s", ".", "m", "d">>>>
B_Included == <<Docs, <<"i", "n", "c", "l", "u", "d", "e", "s">>, <<"c", ".", "m", "d">>>>

BatchPaths == {B_Tags, B_Included, P_Page}

D_H1 == L_H1
D_Titled == join(<<NL>>, <<L_Dashes, L_Title, L_Dashes>>)

BatchDocs == {D_H1, D_Titled}

FileRecs == [path : BatchPaths, content : BatchDocs, mode : {"rw", "ro", "none"}]

\* a glob returns no path twice
FileLists ==
  {fs \in SeqsUpTo(FileRecs, MaxFiles) :
     \A i, j \in 1..Len(fs) : i # j => fs[i].path # fs[j].path}

BatchInit ==
  /\ path = <<>>
  /\ content = <<>>
  /\ orig = <<>>
  /\ prev = <<>>
  /\ ops = <<>>
  /\ wrote = FALSE
  /\ printed = <<>>
  /\ out = NoOut
  /\ script \in {"add", "fix"}
  /\ files \in FileLists
  /\ idx = 0
  /\ processed = 0
  /\ visited = {}
  /\ pc = "loop"

\* add-missing-titles: the file matches an exclusion, continue
MainSkipExcluded ==
  /\ pc = "loop"
  /\ idx < Len(files)
  /\ script = "add"
  /\ Excluded(files[idx + 1].path)
  /\ idx' = idx + 1
  /\ UNCHANGED <<path, content, orig, prev, ops, wrote, printed, out,
                 script, files, processed, visited, pc>>

\* one iteration of the for loop whose per-file call returns
MainProcess ==
  /\ pc = "loop"
  /\ idx < Len(files)
  /\ script = "add" => ~Excluded(files[idx + 1].path)
  /\ ~Raises(files[idx + 1])
  /\ files' = [files EXCEPT ![idx + 1].content = PerFile(files[idx + 1]).content]
  /\ processed' = IF script = "add" THEN processed + 1 ELSE processed
  /\ visited' = visited \cup {idx + 1}
  /\ idx' = idx + 1
  /\ UNCHANGED <<path, content, orig, prev, ops, wrote, printed, out,
                 script, pc>>

\* one iteration whose per-file call raises: the exception leaves main()
MainRaise ==
  /\ pc = "loop"
  /\ idx < Len(files)
  /\ script = "add" => ~Excluded(files[idx + 1].path)
  /\ Raises(files[idx + 1])
  /\ pc' = "crashed"
  /\ UNCHANGED <<path, content, orig, prev, ops, wrote, printed, out,
                 script, files, idx, processed, visited>>

\* the loop is over: the summary line is printed
MainFinish ==
  /\ pc = "loop"
  /\ idx = Len(files)
  /\ pc' = "done"
  /\ UNCHANGED <<path, content, orig, prev, ops, wrote, printed, out,
                 script, files, idx, processed, visited>>

BatchNext == MainSkipExcluded \/ MainProcess \/ MainRaise \/ MainFinish

BatchSpec == BatchInit /\ [][BatchNext]_vars

\* a file the running script has to process and can
Processable(i) ==
  /\ script = "add" => ~Excluded(files[i].path)
  /\ files[i].mode = "rw"

\* C9: a run that has ended has printed its summary and has processed every
\* file that could be processed, whatever files could not be read or
\* written.
C9_BadFileDoesNotAbortBatch ==
  pc \in {"done", "crashed"} =>
    /\ pc = "done"
    /\ \A i \in 1..Len(files) : Processable(i) => i \in visited

====
